---- MODULE Spec2Model ----
(***************************************************************************)
(* git-multi-push: batch commit+push or clone over a list of repositories, *)
(* under a counting gate (buffered channel sem), a join (sync.WaitGroup)   *)
(* and a shared logger.  Model of src/git-multi-push/main.go, and of its    *)
(* variant src/unnamed/part_000, whose checkout mode takes clone URLs from *)
(* the list instead of names under a provider URL.                         *)
(*                                                                         *)
(* Strings are sequences of tokens (a token is a name chunk, " ", "/",     *)
(* "," or ".git"), so trimming, splitting and concatenation are computed.  *)
(***************************************************************************)
EXTENDS Integers, Sequences, FiniteSets, TLC

\* ---------------------------------------------------------------- bounds
MaxLines == 2
MaxParallel == 2

\* ------------------------------------------------------- input alphabets
\* raw lines of the repo file: whitespace only, padded left, padded right.
\* In commit-and-push mode a line is a working-tree path and every probe's answer
\* is drawn when the probe runs, so paths are interchangeable: one path stands
\* for all.  In checkout mode a line names a directory, and two names are needed.
\* In the URL variant a line is a clone URL.
RawLines(co, uv) ==
    IF co /\ uv THEN { << "https://example.org/a", "/", "repoA", ".git" >>,
                       << "https://example.org/b", "/", "repoA", ".git", " " >>,
                       << " ", "https://example.org/a", "/", "repoB" >> }
    ELSE IF co THEN { <<" ">>, <<" ", "repoA">>, <<"repoB", " ">> }
    ELSE { <<" ">>, <<" ", "repoA", " ">> }
FileContents(co, uv) == UNION { [1..n -> RawLines(co, uv)] : n \in 0..MaxLines }
\* values of -branch: unset, or "develop,main"
BranchFlags == { <<>>, <<"develop", ",", "main">> }
\* what git rev-parse --abbrev-ref HEAD can print
Branches == { "main", "feature-x" }
\* values of -provider-url: unset, without and with a trailing slash
ProviderURLs == { <<>>, <<"https://example.org/org">>, <<"https://example.org/org", "/">> }
\* directories that may exist before the run
DirNames == { <<"repoA">>, <<"repoB">> }

VARIABLES
    dryRun,        \* -dry
    checkout,      \* -checkout
    parallel,      \* -parallel
    branches,      \* -branch, raw
    repoFile,      \* TRUE iff -repo-file is non-empty
    providerURL,   \* -provider-url
    nArg,          \* flag.NArg()
    dirs,          \* directories that exist on disk
    file,          \* content of the repo file, once read
    mpc,           \* position of main
    allowedBranches,
    lines,         \* result of readLines
    idx,           \* loop index of the dispatch loop (1-based)
    wgCount,       \* sync.WaitGroup counter
    sem,           \* number of tokens in the channel sem
    wf,            \* per target: the goroutine running its workflow
    logbuf,        \* git-multi-push.log, lines appended by this run
    stdout,        \* what main printed
    urlVariant,    \* TRUE: the program is the variant without -provider-url
    runNo,         \* which run of the program over this disk this is (1 or 2)
    prev           \* the outcomes of the run before, per entry of the list

vars == << dryRun, checkout, parallel, branches, repoFile, providerURL, nArg, dirs,
           file, mpc, allowedBranches, lines, idx, wgCount, sem, wf, logbuf, stdout,
           urlVariant, runNo, prev >>
\* what no step of a run changes: the command line and the runs before
flags == << dryRun, checkout, parallel, branches, repoFile, providerURL, nArg,
           urlVariant, runNo, prev >>

\* ------------------------------------------------------- pure functions
\* strings.TrimSpace on a token string
RECURSIVE TrimLeft(_)
TrimLeft(s) == IF s # <<>> /\ Head(s) = " " THEN TrimLeft(Tail(s)) ELSE s
RECURSIVE TrimRightSpace(_)
TrimRightSpace(s) ==
    IF s # <<>> /\ s[Len(s)] = " " THEN TrimRightSpace(SubSeq(s, 1, Len(s) - 1)) ELSE s
\* (variant: only leading space is removed)
TrimSpaceLeading(s) == TrimLeft(s)
TrimSpace(s) == TrimRightSpace(TrimLeft(s))

\* readLines: trimmed lines of the file, blank ones dropped, in file order
RECURSIVE readLines(_)
readLines(raw) ==
    IF raw = <<>> THEN <<>>
    ELSE LET line == TrimSpace(Head(raw))
         IN  IF line # <<>> THEN <<line>> \o readLines(Tail(raw))
                            ELSE readLines(Tail(raw))

\* strings.Split(s, ","): the fields between the commas
RECURSIVE SplitFrom(_, _)
SplitFrom(s, cur) ==
    IF s = <<>> THEN << cur >>
    ELSE IF Head(s) = "," THEN << cur >> \o SplitFrom(Tail(s), "")
    ELSE SplitFrom(Tail(s), cur \o Head(s))
Split(s) == SplitFrom(s, "")

\* (variant: only the first allowed branch is compared)
MatchFirstOnly(allowed, branch) == allowed # <<>> /\ Head(allowed) = branch
\* the loop over allowedBranches in processRepo
RECURSIVE Match(_, _)
Match(allowed, branch) ==
    IF allowed = <<>> THEN FALSE
    ELSE IF Head(allowed) = branch THEN TRUE
    ELSE Match(Tail(allowed), branch)

\* strings.TrimRight(providerURL, "/")
RECURSIVE TrimRightSlash(_)
TrimRightSlash(s) ==
    IF s # <<>> /\ s[Len(s)] = "/" THEN TrimRightSlash(SubSeq(s, 1, Len(s) - 1)) ELSE s

\* (variant: the provider URL is used as given)
fullURLNoTrim(url, repoName) == url \o << "/" >> \o repoName \o << ".git" >>
\* fullURL := strings.TrimRight(providerURL, "/") + "/" + repoName + ".git"
fullURL(url, repoName) == TrimRightSlash(url) \o << "/" >> \o repoName \o << ".git" >>

\* targetDir := repoName
targetDir(repoName) == repoName

\* filepath.Base(url): trailing separators dropped, then what follows the last one
RECURSIVE Base(_)
Base(p) ==
    IF p = <<>> THEN << "." >>
    ELSE IF p[Len(p)] = "/" THEN (IF Len(p) = 1 THEN << "/" >> ELSE Base(SubSeq(p, 1, Len(p) - 1)))
    ELSE IF \E k \in DOMAIN p : p[k] = "/"
      THEN LET last == CHOOSE k \in DOMAIN p : p[k] = "/" /\ \A m \in DOMAIN p : p[m] = "/" => m <= k
           IN  SubSeq(p, last + 1, Len(p))
    ELSE p
\* strings.TrimSuffix(s, ".git")
TrimSuffixGit(s) == IF s # <<>> /\ s[Len(s)] = ".git" THEN SubSeq(s, 1, Len(s) - 1) ELSE s
\* URL variant: targetDir := strings.TrimSuffix(filepath.Base(url), ".git")
targetDirOfURL(url) == TrimSuffixGit(Base(url))

\* the directory and the clone source the dispatch loop hands to checkoutRepo
dirOf(uv, line) == IF uv THEN targetDirOfURL(line) ELSE targetDir(line)
sourceOf(uv, purl, line) == IF uv THEN line ELSE fullURL(purl, line)

\* the three commands of processRepo, in order
cmds == << "add", "commit", "push" >>

\* ------------------------------------------------------------ the state
Targets == 1..MaxLines
NoBranch == ""
idleWf == [ pc |-> "idle", branch |-> NoBranch, step |-> 1, out |-> "none", ran |-> <<>> ]

\* a line of the log: who wrote it (0 is main, i is the workflow of lines[i])
LogLine(i, kind) == [ by |-> i, kind |-> kind ]
\* one call a workflow made, with its answer:
\*   how = "stat"    os.Stat, no process is started
\*   how = "output"  cmd.Output() in a probe: an external process ran
\*   how = "run"     cmd.Run() inside run(): an external process ran
\*   how = "preview" the [Dry-Run] line of run(): nothing ran
\* ok: the call returned no error (for stat .git: and it is a directory)
Call(name, how, ok) == [ cmd |-> name, how |-> how, ok |-> ok ]
Range(q) == { q[n] : n \in DOMAIN q }
\* the call went through run(): the Command Runner
IsRunner(c) == c.how \in { "run", "preview" }
\* an external process was started for the call
IsExecuted(c) == c.how \in { "run", "output" }

Init ==
    /\ dryRun \in BOOLEAN
    /\ checkout \in BOOLEAN
    /\ parallel \in 0..MaxParallel
    /\ branches \in BranchFlags
    /\ repoFile \in BOOLEAN
    \* the two programs differ in checkout mode only
    /\ urlVariant \in IF checkout THEN BOOLEAN ELSE { FALSE }
    \* -provider-url is read in checkout mode only, and the variant has no such flag
    /\ providerURL \in IF checkout /\ ~urlVariant THEN ProviderURLs ELSE { <<>> }
    \* flag.NArg() is read in commit-and-push mode only
    /\ nArg \in IF checkout THEN { 0 } ELSE 0..1
    \* commit-and-push never reads dirs (isGitRepo stats <repo>/.git, whose
    \* answer is drawn when it is asked), so only checkout runs vary it
    /\ dirs \in IF checkout THEN SUBSET DirNames ELSE { {} }
    /\ file = <<>>
    /\ mpc = "flags"
    /\ allowedBranches = <<>>
    /\ lines = <<>>
    /\ idx = 1
    /\ wgCount = 0
    /\ sem = 0
    /\ wf = [ i \in Targets |-> idleWf ]
    /\ logbuf = <<>>
    /\ stdout = <<>>
    /\ runNo = 1
    /\ prev = <<>>

\* ------------------------------------------------------------------ main
\* position of main at the head of a dispatch loop
loopHead(i, ls) == IF i > Len(ls) THEN "wait" ELSE "add"

\* flag checks and the parse of -branch
mainFlags ==
    /\ mpc = "flags"
    /\ IF ~repoFile
         THEN /\ stdout' = Append(stdout, IF urlVariant THEN "Bitte -repo-file angeben!"
                                          ELSE "Fehler: Bitte -repo-file angeben!")
              /\ mpc' = "exit"
              /\ UNCHANGED allowedBranches
       ELSE IF ~urlVariant /\ checkout /\ providerURL = <<>>
         THEN /\ stdout' = Append(stdout, "Fehler: Bitte -provider-url angeben!")
              /\ mpc' = "exit"
              /\ UNCHANGED allowedBranches
       ELSE /\ allowedBranches' = IF branches # <<>> THEN Split(branches) ELSE <<>>
            /\ mpc' = "openLog"
            /\ UNCHANGED stdout
    /\ UNCHANGED << flags, dirs, file, lines, idx, wgCount, sem, wf, logbuf >>

\* os.OpenFile of the log and the opening line
mainOpenLog ==
    /\ mpc = "openLog"
    /\ \E ok \in BOOLEAN :
         IF ok
           THEN /\ logbuf' = Append(logbuf, LogLine(0, "Starte Operation"))
                /\ mpc' = "readLines"
                /\ UNCHANGED stdout
           ELSE /\ stdout' = Append(stdout, "Konnte Log-Datei nicht oeffnen")
                /\ mpc' = "exit"
                /\ UNCHANGED logbuf
    /\ UNCHANGED << flags, dirs, file, allowedBranches, lines, idx, wgCount, sem, wf >>

\* readLines(*repoFile), then the creation of wg and sem
mainReadLines ==
    /\ mpc = "readLines"
    /\ \/ /\ stdout' = Append(stdout, "Fehler beim Lesen der Datei")
          /\ mpc' = "exit"
          /\ UNCHANGED << file, lines >>
       \/ \E content \in IF runNo = 1 THEN FileContents(checkout, urlVariant) ELSE { file } :
            /\ file' = content
            /\ lines' = readLines(content)
            /\ mpc' = IF checkout THEN loopHead(1, lines') ELSE "nArg"
            /\ UNCHANGED stdout
    /\ UNCHANGED << flags, dirs, allowedBranches, idx, wgCount, sem, wf, logbuf >>

\* (variant: the message is printed and main goes on)
mainNArgGoesOn ==
    /\ mpc = "nArg"
    /\ stdout' = IF nArg < 1 THEN Append(stdout, "Bitte Commit Message angeben!") ELSE stdout
    /\ mpc' = loopHead(idx, lines)
    /\ UNCHANGED << flags, dirs, file, allowedBranches, lines, idx, wgCount, sem, wf, logbuf >>

\* commit-and-push mode: the commit message is required
mainNArg ==
    /\ mpc = "nArg"
    /\ IF nArg < 1
         THEN /\ stdout' = Append(stdout, "Bitte Commit Message angeben!")
              /\ mpc' = "exit"
         ELSE /\ mpc' = loopHead(idx, lines)
              /\ UNCHANGED stdout
    /\ UNCHANGED << flags, dirs, file, allowedBranches, lines, idx, wgCount, sem, wf, logbuf >>

\* wg.Add(1)
mainAdd ==
    /\ mpc = "add"
    /\ wgCount' = wgCount + 1
    /\ mpc' = "acquire"
    /\ UNCHANGED << flags, dirs, file, allowedBranches, lines, idx, sem, wf, logbuf, stdout >>

\* (variant: a send that never blocks)
semHasRoomAlways == TRUE
\* (variant: a limit of 0 means no limit)
semHasRoomOrZero == sem < parallel \/ parallel = 0
\* sem <- struct{}{} : blocks while the channel holds parallel tokens
semHasRoom == sem < parallel
mainAcquire ==
    /\ mpc = "acquire"
    /\ semHasRoom
    /\ sem' = sem + 1
    /\ mpc' = "go"
    /\ UNCHANGED << flags, dirs, file, allowedBranches, lines, idx, wgCount, wf, logbuf, stdout >>

\* go func(...){...}(...) and the next iteration
mainGo ==
    /\ mpc = "go"
    /\ wf' = [ wf EXCEPT ![idx].pc = IF checkout THEN "stat" ELSE "isGitRepo" ]
    /\ idx' = idx + 1
    /\ mpc' = loopHead(idx', lines)
    /\ UNCHANGED << flags, dirs, file, allowedBranches, lines, wgCount, sem, logbuf, stdout >>

\* (variant: a join that does not wait)
waitPassesAlways == TRUE
\* wg.Wait() returns when the counter is zero
waitPasses == wgCount = 0
mainWait ==
    /\ mpc = "wait"
    /\ waitPasses
    /\ mpc' = "closing"
    /\ UNCHANGED << flags, dirs, file, allowedBranches, lines, idx, wgCount, sem, wf, logbuf, stdout >>

\* logger.Println("=== Alle Jobs fertig ===")
mainClosing ==
    /\ mpc = "closing"
    /\ logbuf' = Append(logbuf, LogLine(0, "Alle Jobs fertig"))
    /\ mpc' = "notice"
    /\ UNCHANGED << flags, dirs, file, allowedBranches, lines, idx, wgCount, sem, wf, stdout >>

\* fmt.Println("Alle Jobs fertig!")
mainNotice ==
    /\ mpc = "notice"
    /\ stdout' = Append(stdout, "Alle Jobs fertig!")
    /\ mpc' = "exit"
    /\ UNCHANGED << flags, dirs, file, allowedBranches, lines, idx, wgCount, sem, wf, logbuf >>

main ==
    \/ mainFlags \/ mainOpenLog \/ mainReadLines \/ mainNArg \/ mainAdd
    \/ mainAcquire \/ mainGo \/ mainWait \/ mainClosing \/ mainNotice

\* ---------------------------------------------------------- Command Runner
\* (variant: the dry-run toggle is not consulted)
runHowAlwaysRun(dry) == "run"
\* run(cmd, dryRun): what happens to the command
runHow(dry) == IF dry THEN "preview" ELSE "run"
\* (variant: a dry run reports the errors of a real one)
runResultsAny(dry) == BOOLEAN
\* the errors run can return: none in a dry run, the exit status otherwise
runResults(dry) == IF dry THEN { TRUE } ELSE BOOLEAN

\* ------------------------------------------------- processRepo (goroutine i)
\* the log after logger.Printf of a line of this kind ("" : nothing is logged)
logged(i, kind) == IF kind = "" THEN logbuf ELSE Append(logbuf, LogLine(i, kind))

\* isGitRepo(repo)
procIsGitRepo(i) ==
    /\ wf[i].pc = "isGitRepo"
    /\ \E isRepo \in BOOLEAN :
         LET ran == Append(wf[i].ran, Call("stat .git", "stat", isRepo)) IN
         IF ~isRepo
           THEN /\ logbuf' = logged(i, "Kein Git-Repo")
                /\ wf' = [ wf EXCEPT ![i].pc = "ret", ![i].out = "NotARepository", ![i].ran = ran ]
           ELSE /\ wf' = [ wf EXCEPT ![i].pc = "getCurrentBranch", ![i].ran = ran ]
                /\ UNCHANGED logbuf
    /\ UNCHANGED << flags, dirs, file, mpc, allowedBranches, lines, idx, wgCount, sem, stdout >>

\* (variant: the allow-list is not consulted)
branchAllowedAlways(allowed, branch) == TRUE
\* the allow-list test of processRepo
branchAllowed(allowed, branch) == Len(allowed) > 0 => Match(allowed, branch)

\* getCurrentBranch(repo), then the allow-list
procGetCurrentBranch(i) ==
    /\ wf[i].pc = "getCurrentBranch"
    /\ \/ /\ logbuf' = logged(i, "Fehler beim Branch-Check")
          /\ wf' = [ wf EXCEPT ![i].pc = "ret", ![i].out = "BranchCheckFailed",
                               ![i].ran = Append(@, Call("rev-parse", "output", FALSE)) ]
       \/ \E branch \in Branches :
            LET ran == Append(wf[i].ran, Call("rev-parse", "output", TRUE)) IN
            IF ~branchAllowed(allowedBranches, branch)
              THEN /\ logbuf' = logged(i, "Branch nicht erlaubt")
                   /\ wf' = [ wf EXCEPT ![i].pc = "ret", ![i].out = "BranchNotAllowed",
                                        ![i].branch = branch, ![i].ran = ran ]
              ELSE /\ wf' = [ wf EXCEPT ![i].pc = "hasChanges", ![i].branch = branch,
                                        ![i].ran = ran ]
                   /\ UNCHANGED logbuf
    /\ UNCHANGED << flags, dirs, file, mpc, allowedBranches, lines, idx, wgCount, sem, stdout >>

\* hasChanges(repo): git status --porcelain failed, printed nothing, or printed something
StatusResults == { "error", "clean", "dirty" }
\* (variant: a failed probe counts as changes)
hasChangesErrAsDirty(status) == status # "clean"
hasChanges(status) == IF status = "error" THEN FALSE ELSE status = "dirty"

procHasChanges(i) ==
    /\ wf[i].pc = "hasChanges"
    /\ \E status \in StatusResults :
         LET ran == Append(wf[i].ran, Call("status", "output", status # "error")) IN
         IF ~hasChanges(status)
           THEN /\ logbuf' = logged(i, "Keine Aenderungen")
                /\ wf' = [ wf EXCEPT ![i].pc = "ret", ![i].out = "NoChanges", ![i].ran = ran ]
           ELSE /\ logbuf' = logged(i, "Bearbeite Repo")
                /\ wf' = [ wf EXCEPT ![i].pc = "run", ![i].step = 1, ![i].ran = ran ]
    /\ UNCHANGED << flags, dirs, file, mpc, allowedBranches, lines, idx, wgCount, sem, stdout >>

\* what processRepo logs once its loop ended without an error: nothing
successLine == ""

\* (variant: the loop goes on after an error)
loopAfterNoBreak(ok, k) == IF k < Len(cmds) THEN "next" ELSE "end"
\* the loop over cmds after step k returned ok: break, next step, or fall out
loopAfter(ok, k) == IF ~ok THEN "break" ELSE IF k < Len(cmds) THEN "next" ELSE "end"

\* one iteration of the loop over cmds
procRun(i) ==
    /\ wf[i].pc = "run"
    /\ \E ok \in runResults(dryRun) :
         LET k == wf[i].step
             ran == Append(wf[i].ran, Call(cmds[k], runHow(dryRun), ok))
             to == loopAfter(ok, k) IN
         /\ logbuf' = IF ~ok THEN logged(i, "Fehler")
                      ELSE IF to = "end" THEN logged(i, successLine)
                      ELSE logbuf
         /\ wf' = IF to = "next" THEN [ wf EXCEPT ![i].step = k + 1, ![i].ran = ran ]
                  ELSE [ wf EXCEPT ![i].pc = "ret", ![i].ran = ran,
                                   ![i].out = IF \E c \in Range(ran) : IsRunner(c) /\ ~c.ok
                                                THEN "Failed" ELSE "Succeeded" ]
    /\ UNCHANGED << flags, dirs, file, mpc, allowedBranches, lines, idx, wgCount, sem, stdout >>

\* ------------------------------------------------ checkoutRepo (goroutine i)
\* (variant: the directory is never found)
statOKNever(dir, existing) == FALSE
\* os.Stat(targetDir) returned no error
statOK(dir, existing) == dir \in existing

chkStat(i) ==
    /\ wf[i].pc = "stat"
    /\ LET ok == statOK(dirOf(urlVariant, lines[i]), dirs)
           ran == Append(wf[i].ran, Call("stat", "stat", ok)) IN
       IF ok
         THEN /\ logbuf' = logged(i, "Verzeichnis existiert")
              /\ wf' = [ wf EXCEPT ![i].pc = "ret", ![i].out = "AlreadyExists", ![i].ran = ran ]
         ELSE /\ wf' = [ wf EXCEPT ![i].pc = "clone", ![i].ran = ran ]
              /\ UNCHANGED logbuf
    /\ UNCHANGED << flags, dirs, file, mpc, allowedBranches, lines, idx, wgCount, sem, stdout >>

\* the line checkoutRepo logs when run returned no error, dry run or not
cloneOKLine(dry) == "Erfolgreich ausgecheckt"

\* what git clone can return for a destination: git refuses one that exists
\* by now (another workflow cloned into it since the stat)
cloneResults(dry, dir, existing) ==
    { ok \in runResults(dry) : (runHow(dry) = "run" /\ dir \in existing) => ~ok }

\* git clone fullURL targetDir through run
chkClone(i) ==
    /\ wf[i].pc = "clone"
    /\ \E ok \in cloneResults(dryRun, dirOf(urlVariant, lines[i]), dirs) :
         LET how == runHow(dryRun)
             ran == Append(wf[i].ran,
                           [ cmd |-> "clone", how |-> how, ok |-> ok,
                             url |-> sourceOf(urlVariant, providerURL, lines[i]),
                             dir |-> dirOf(urlVariant, lines[i]) ]) IN
         IF ~ok
           THEN /\ logbuf' = logged(i, "Checkout Fehler")
                /\ wf' = [ wf EXCEPT ![i].pc = "ret", ![i].out = "Failed", ![i].ran = ran ]
                /\ UNCHANGED dirs
           ELSE /\ logbuf' = logged(i, cloneOKLine(dryRun))
                /\ wf' = [ wf EXCEPT ![i].pc = "ret", ![i].out = "Succeeded", ![i].ran = ran ]
                /\ dirs' = IF how = "run" THEN dirs \cup { dirOf(urlVariant, lines[i]) }
                                            ELSE dirs
    /\ UNCHANGED << flags, file, mpc, allowedBranches, lines, idx, wgCount, sem, stdout >>

\* ------------------------------------------------------ deferred calls
\* (variant: Done is called on the paths that did not fail only)
wgDoneUnlessFailed(i) ==
    /\ wf[i].pc = "ret"
    /\ wf[i].out # "Failed"
    /\ wgCount' = wgCount - 1
    /\ wf' = [ wf EXCEPT ![i].pc = "done", ![i].branch = NoBranch, ![i].step = 1 ]
    /\ UNCHANGED << flags, dirs, file, mpc, allowedBranches, lines, idx, sem, logbuf, stdout >>

\* (variant: Done is called twice on the way out)
wgDoneTwice(i) ==
    /\ wf[i].pc = "ret"
    /\ wgCount' = wgCount - 2
    /\ wf' = [ wf EXCEPT ![i].pc = "done", ![i].branch = NoBranch, ![i].step = 1 ]
    /\ UNCHANGED << flags, dirs, file, mpc, allowedBranches, lines, idx, sem, logbuf, stdout >>

\* defer wg.Done() of processRepo / checkoutRepo; the function returns and its
\* locals (branch, the loop position) are gone
wgDone(i) ==
    /\ wf[i].pc = "ret"
    /\ wgCount' = wgCount - 1
    /\ wf' = [ wf EXCEPT ![i].pc = "done", ![i].branch = NoBranch, ![i].step = 1 ]
    /\ UNCHANGED << flags, dirs, file, mpc, allowedBranches, lines, idx, sem, logbuf, stdout >>

\* defer func() { <-sem }() of the goroutine
semRelease(i) ==
    /\ wf[i].pc = "done"
    /\ sem' = sem - 1
    /\ wf' = [ wf EXCEPT ![i].pc = "exit" ]
    /\ UNCHANGED << flags, dirs, file, mpc, allowedBranches, lines, idx, wgCount, logbuf, stdout >>

goroutine(i) ==
    \/ procIsGitRepo(i) \/ procGetCurrentBranch(i) \/ procHasChanges(i) \/ procRun(i)
    \/ chkStat(i) \/ chkClone(i) \/ wgDone(i) \/ semRelease(i)

Next == main \/ \E i \in Targets : goroutine(i)

Spec == Init /\ [][Next]_vars

\* The program is started again with the same command line and the same repo
\* file once a checkout run has printed its notice and exited: a new process
\* (new wg, new sem, no goroutines) over the disk the first run left behind.
rerun ==
    /\ runNo = 1
    /\ checkout
    /\ mpc = "exit"
    /\ \E n \in DOMAIN stdout : stdout[n] = "Alle Jobs fertig!"
    /\ runNo' = 2
    /\ prev' = [ i \in 1..Len(lines) |-> wf[i].out ]
    /\ mpc' = "flags"
    /\ allowedBranches' = <<>>
    /\ lines' = <<>>
    /\ idx' = 1
    /\ wgCount' = 0
    /\ sem' = 0
    /\ wf' = [ i \in Targets |-> idleWf ]
    /\ logbuf' = <<>>
    /\ stdout' = <<>>
    /\ UNCHANGED << dryRun, checkout, parallel, branches, repoFile, providerURL, nArg,
                    urlVariant, dirs, file >>

NextRerun == Next \/ rerun

\* two runs in a row
RerunSpec == Init /\ [][NextRerun]_vars

\* The Go scheduler runs every runnable goroutine, and every external command
\* is taken to exit: main and each workflow take their next step when they can.
FairSpec == Spec /\ WF_vars(main) /\ \A i \in Targets : WF_vars(goroutine(i))

\* ===================================================================== claims
\* the workflow of target i was started and processRepo / checkoutRepo has not returned
Active(i) == wf[i].pc \notin { "idle", "done", "exit" }
\* processRepo / checkoutRepo of target i has returned
Finished(i) == wf[i].pc \in { "done", "exit" }
\* the workflow of target i has reached a terminal state: its outcome is decided
Terminal(i) == wf[i].pc \in { "ret", "done", "exit" }
Dispatched(i) == wf[i].pc # "idle"
Entries == 1..Len(lines)
ClosingLine == LogLine(0, "Alle Jobs fertig")
NoticePrinted == \E n \in DOMAIN stdout : stdout[n] = "Alle Jobs fertig!"

\* C1: with maxParallel >= 1, the number of workflows started and not yet
\* returned is at most maxParallel in every reachable state.
C1_AtMostMaxParallelActive ==
    parallel >= 1 => Cardinality({ i \in Targets : Active(i) }) <= parallel

\* the gate is full, a workflow is running and main is blocked on the next slot
C1_Witness ==
    /\ parallel >= 1
    /\ mpc = "acquire"
    /\ Cardinality({ i \in Targets : Active(i) }) = parallel
    /\ Len(lines) > parallel

\* C2: main is past wg.Wait (closing line, completion notice) only when every
\* entry of the list was dispatched and its workflow has returned, and no
\* line of a workflow follows the closing line in the log.
C2_JoinAfterEveryWorkflow ==
    /\ (mpc \in { "closing", "notice" } \/ ClosingLine \in Range(logbuf) \/ NoticePrinted)
          => \A i \in Entries : Finished(i)
    /\ \A m, n \in DOMAIN logbuf :
          (logbuf[m] = ClosingLine /\ n > m) => logbuf[n].by = 0

\* the closing line is in the log after two workflows wrote their lines
C2_Witness ==
    /\ Len(lines) = 2
    /\ parallel = 2
    /\ logbuf # <<>>
    /\ logbuf[Len(logbuf)] = ClosingLine
    /\ \A i \in Entries : \E n \in DOMAIN logbuf : logbuf[n].by = i

SkipOutcomes == { "NotARepository", "BranchCheckFailed", "BranchNotAllowed", "NoChanges",
                  "AlreadyExists" }
\* main is past every configuration check and in the dispatch loop or the join
PastConfig == mpc \in { "add", "acquire", "go", "wait" }

\* C3: without a configuration error and with maxParallel >= 1, under fair
\* scheduling every target reaches a terminal state and the completion
\* notice is printed, whatever the other targets' outcomes are.
C3_EveryTargetCompletes ==
    (PastConfig /\ parallel >= 1) ~> (NoticePrinted /\ \A i \in Entries : Terminal(i))

\* the notice is printed after one target failed and the other was skipped
C3_Witness ==
    /\ NoticePrinted
    /\ Len(lines) = 2
    /\ \E i, j \in Entries : wf[i].out = "Failed" /\ wf[j].out \in SkipOutcomes

\* the calls of workflow i, and those among them that went through run()
Ran(i) == wf[i].ran
RunnerCalls(i) == SelectSeq(wf[i].ran, IsRunner)
LinesBy(i, kinds) == { n \in DOMAIN logbuf : logbuf[n].by = i /\ logbuf[n].kind \in kinds }
\* the lines that record how a workflow ended ("Bearbeite Repo" announces the
\* running phase, it is no outcome)
OutcomeKinds == { "Kein Git-Repo", "Fehler beim Branch-Check", "Branch nicht erlaubt",
                  "Keine Aenderungen", "Fehler", "Verzeichnis existiert",
                  "Checkout Fehler", "Erfolgreich ausgecheckt" }

\* C4: when the run completes, the log holds exactly one outcome line for
\* every target, in both modes (so also for a commit-and-push workflow whose
\* three steps all succeeded).
C4_ExactlyOneOutcomeRecorded ==
    NoticePrinted => \A i \in Entries : Cardinality(LinesBy(i, OutcomeKinds)) = 1

\* C5: commit-and-push evaluates stat .git, rev-parse, the allow-list and
\* status in this order; the first check that fails decides the skip state,
\* and a skipped target has no call through the Command Runner.
C5_ChecksInOrderSkipRunsNothing ==
    ~checkout => \A i \in Targets :
        LET r == Ran(i) IN
        /\ Len(r) >= 1 => r[1].cmd = "stat .git"
        /\ Len(r) >= 2 => r[1].ok /\ r[2].cmd = "rev-parse"
        /\ Len(r) >= 3 => r[2].ok /\ r[3].cmd = "status"
        /\ Len(r) >= 4 => r[3].ok /\ \A k \in 4..Len(r) : IsRunner(r[k])
        /\ Terminal(i) =>
             /\ wf[i].out = "NotARepository" <=> (Len(r) = 1 /\ ~r[1].ok)
             /\ wf[i].out = "BranchCheckFailed" <=> (Len(r) = 2 /\ ~r[2].ok)
             /\ wf[i].out = "BranchNotAllowed" => (Len(r) = 2 /\ r[2].ok)
             /\ wf[i].out = "NoChanges" <=> Len(r) = 3
             /\ wf[i].out \in SkipOutcomes => RunnerCalls(i) = <<>>
        /\ (wf[i].pc = "ret" /\ wf[i].branch # NoBranch) =>
             ( wf[i].out = "BranchNotAllowed" <=>
                 ( allowedBranches # <<>>
                   /\ \A n \in DOMAIN allowedBranches : allowedBranches[n] # wf[i].branch ) )

\* a target on feature-x with the allow-list develop,main was skipped
C5_Witness ==
    /\ ~checkout
    /\ allowedBranches = << "develop", "main" >>
    /\ \E i \in Entries :
         /\ wf[i].pc = "ret"
         /\ wf[i].branch = "feature-x"
         /\ wf[i].out = "BranchNotAllowed"
         /\ RunnerCalls(i) = <<>>

\* C6: the calls through the Command Runner are add, commit, push in this
\* order and nothing else; a step is issued only if every earlier one
\* succeeded, and a failing step is the last one and ends the workflow Failed.
C6_StepsInOrderStopAtFirstFailure ==
    ~checkout => \A i \in Targets :
        LET rc == RunnerCalls(i) IN
        /\ Len(rc) <= Len(cmds)
        /\ \A k \in DOMAIN rc : rc[k].cmd = cmds[k]
        /\ \A k \in DOMAIN rc : k < Len(rc) => rc[k].ok
        /\ Terminal(i) =>
             /\ wf[i].out = "Failed" <=> (rc # <<>> /\ ~rc[Len(rc)].ok)
             /\ wf[i].out = "Succeeded" <=> (Len(rc) = Len(cmds) /\ rc[Len(rc)].ok)

\* add succeeded, commit failed, push was not issued
C6_Witness ==
    \E i \in Entries :
        /\ wf[i].pc = "exit"
        /\ wf[i].out = "Failed"
        /\ Len(RunnerCalls(i)) = 2
        /\ RunnerCalls(i)[1] = Call("add", "run", TRUE)
        /\ RunnerCalls(i)[2] = Call("commit", "run", FALSE)

C8_DryRunPreviewsAllSteps ==
    dryRun => \A i \in Targets : Terminal(i) =>
        /\ wf[i].out # "Failed"
        /\ (~checkout /\ LinesBy(i, { "Bearbeite Repo" }) # {}) =>
             /\ RunnerCalls(i) = << Call("add", "preview", TRUE),
                                    Call("commit", "preview", TRUE),
                                    Call("push", "preview", TRUE) >>
             /\ wf[i].out = "Succeeded"
        /\ (checkout /\ ~Ran(i)[1].ok) =>
             /\ Len(RunnerCalls(i)) = 1
             /\ RunnerCalls(i)[1].cmd = "clone"
             /\ RunnerCalls(i)[1].how = "preview"

\* a dry run finished a commit-and-push target that had pending changes
C8_Witness ==
    /\ dryRun
    /\ ~checkout
    /\ \E i \in Entries : Terminal(i) /\ LinesBy(i, { "Bearbeite Repo" }) # {}

\* C9 as stated: in a dry run every preview has a "would execute" line in
\* the log, and the log records nothing as done.
C9_DryRunLogsWouldExecute ==
    dryRun => \A i \in Targets :
        /\ Cardinality(LinesBy(i, { "would execute" })) = Len(RunnerCalls(i))
        /\ LinesBy(i, { "Erfolgreich ausgecheckt" }) = {}

\* C10: a checkout workflow that finds its directory on disk ends
\* AlreadyExists on the spot, dry run or not, and issues no clone; a clone is
\* issued only by a workflow whose stat found nothing.
C10_ExistingDirNotCloned ==
    /\ [][ \A i \in Targets :
             (wf[i].pc = "stat" /\ wf'[i].pc # "stat"
                /\ dirOf(urlVariant, lines[i]) \in dirs)
                => (wf'[i].pc = "ret" /\ wf'[i].out = "AlreadyExists") ]_vars
    /\ [](checkout => \A i \in Targets :
            /\ wf[i].out = "AlreadyExists" => Ran(i) = << Call("stat", "stat", TRUE) >>
            /\ RunnerCalls(i) # <<>> => ~Ran(i)[1].ok)

\* one workflow cloned a repository for real, a later one for the same
\* target found the directory
C10_Witness ==
    /\ checkout
    /\ ~dryRun
    /\ \E i, j \in Entries :
         /\ lines[i] = lines[j]
         /\ wf[i].out = "Succeeded"
         /\ wf[j].out = "AlreadyExists"

ConfigErrors == { "Fehler: Bitte -repo-file angeben!", "Bitte -repo-file angeben!",
                  "Fehler: Bitte -provider-url angeben!", "Fehler beim Lesen der Datei",
                  "Bitte Commit Message angeben!" }
\* the command line lacks the repo file, the provider URL of a checkout, or
\* the commit message of a commit-and-push
BadCommandLine ==
    \/ ~repoFile
    \/ checkout /\ ~urlVariant /\ providerURL = <<>>
    \/ ~checkout /\ nArg < 1
NoWorkDone ==
    /\ \A i \in Targets : wf[i] = idleWf
    /\ wgCount = 0
    /\ sem = 0
    /\ ~NoticePrinted
    /\ ClosingLine \notin Range(logbuf)

\* C12: with a configuration error (repo file not given or unreadable,
\* checkout without provider URL, commit-and-push without message) no
\* workflow is ever dispatched, no probe or command is issued and the
\* completion notice is not printed.
C12_ConfigErrorDoesNoWork ==
    /\ BadCommandLine => NoWorkDone
    /\ (\E n \in DOMAIN stdout : stdout[n] \in ConfigErrors) => (mpc = "exit" /\ NoWorkDone)

\* the commit message was missing although the list had two targets
C12_Witness ==
    /\ mpc = "exit"
    /\ Len(lines) = 2
    /\ stdout = << "Bitte Commit Message angeben!" >>

\* the branch names given with -branch
FlagNames == { branches[n] : n \in { m \in DOMAIN branches : branches[m] # "," } }

\* C13: without -branch no target ends BranchNotAllowed; with it, a target
\* whose branch was resolved ends BranchNotAllowed exactly when its branch
\* is none of the names given.
C13_BranchFilter ==
    \A i \in Targets :
        /\ branches = <<>> => wf[i].out # "BranchNotAllowed"
        /\ wf[i].out = "BranchNotAllowed" => Ran(i)[Len(Ran(i))] = Call("rev-parse", "output", TRUE)
        /\ (branches # <<>> /\ wf[i].branch # NoBranch) =>
              (wf[i].out = "BranchNotAllowed" <=> wf[i].branch \notin FlagNames)

\* with -branch develop,main a target on main went on to its status probe
\* and one on feature-x was skipped
C13_Witness ==
    /\ branches = << "develop", ",", "main" >>
    /\ \E i, j \in Entries :
         /\ wf[i].branch = "main" /\ wf[i].pc = "hasChanges"
         /\ wf[j].branch = "feature-x" /\ wf[j].pc = "ret" /\ wf[j].out = "BranchNotAllowed"

\* a raw line without its leading and trailing spaces: from its first to its
\* last token that is no space
NonSpace(s) == { k \in DOMAIN s : s[k] # " " }
Trimmed(s) ==
    IF NonSpace(s) = {} THEN <<>>
    ELSE LET lo == CHOOSE k \in NonSpace(s) : \A m \in NonSpace(s) : k <= m
             hi == CHOOSE k \in NonSpace(s) : \A m \in NonSpace(s) : k >= m
         IN  SubSeq(s, lo, hi)
NonBlank(l) == l # <<>>
TargetList == SelectSeq([ n \in DOMAIN file |-> Trimmed(file[n]) ], NonBlank)

\* C15: the list is the trimmed non-blank lines of the file in file order;
\* the workflows dispatched so far are those of the entries before the loop
\* index, one each and in list order, and every entry is dispatched when
\* main reaches the join.
C15_OneWorkflowPerEntryInOrder ==
    /\ lines = TargetList
    /\ idx <= Len(lines) + 1
    /\ \A i \in Targets : Dispatched(i) <=> i < idx
    /\ mpc \in { "add", "acquire", "go" } => idx <= Len(lines)
    /\ mpc = "go" => sem >= 1
    /\ (mpc \in { "wait", "closing", "notice" } \/ NoticePrinted) => idx = Len(lines) + 1

\* the second workflow has returned while the first is still running
C15_Witness ==
    /\ Len(lines) = 2
    /\ \E n \in DOMAIN file : file[n] # lines[n]
    /\ Active(1)
    /\ Finished(2)

\* the clone calls issued so far into directory d, as (workflow, position)
ClonesInto(d) ==
    { c \in Targets \X (1..2) :
        /\ c[2] \in DOMAIN Ran(c[1])
        /\ Ran(c[1])[c[2]].cmd = "clone"
        /\ Ran(c[1])[c[2]].dir = d }
PairwiseDistinct(q) == \A m, n \in DOMAIN q : m # n => q[m] # q[n]

\* C16: in checkout mode, when the targets of the list are pairwise
\* distinct, no two workflows have the same target directory and at most
\* one clone is issued into any directory.
C16_DistinctTargetsOwnDirectory ==
    (checkout /\ PairwiseDistinct(lines)) =>
        /\ PairwiseDistinct([ n \in DOMAIN lines |-> dirOf(urlVariant, lines[n]) ])
        /\ \A i \in Entries : Cardinality(ClonesInto(dirOf(urlVariant, lines[i]))) <= 1

\* the base without the path separators it ends with
BaseOf(purl) ==
    LET k == CHOOSE k \in 0..Len(purl) :
                 /\ \A m \in (k + 1)..Len(purl) : purl[m] = "/"
                 /\ k > 0 => purl[k] # "/"
    IN  SubSeq(purl, 1, k)

\* C17: in checkout mode with a provider base URL, every clone has as its
\* source the base, one path separator, the repository name and ".git",
\* and as its destination the directory named after the target.
C17_CloneSourceAndDestination ==
    (checkout /\ ~urlVariant) =>
        \A i \in Entries : \A n \in DOMAIN Ran(i) :
            Ran(i)[n].cmd = "clone" =>
                /\ Ran(i)[n].url = BaseOf(providerURL) \o << "/" >> \o lines[i] \o << ".git" >>
                /\ Ran(i)[n].url[Len(BaseOf(providerURL)) + 1] = "/"
                /\ Len(BaseOf(providerURL)) > 0 => Ran(i)[n].url[Len(BaseOf(providerURL))] # "/"
                /\ Ran(i)[n].dir = lines[i]
C17_Witness ==
    /\ checkout /\ ~urlVariant
    /\ providerURL = << "https://example.org/org", "/" >>
    /\ \E i \in Entries : \E n \in DOMAIN Ran(i) :
          /\ Ran(i)[n].cmd = "clone"
          /\ Ran(i)[n].url = << "https://example.org/org", "/", "repoA", ".git" >>
          /\ Ran(i)[n].dir = << "repoA" >>

\* the short-status probe of workflow i ran and returned an error
StatusProbeFailed(i) ==
    \E n \in DOMAIN Ran(i) : Ran(i)[n].cmd = "status" /\ ~Ran(i)[n].ok

\* C18: when the short-status probe fails for a target, the commit-and-push
\* workflow takes it as no changes: the target ends in NoChanges and no
\* stage, commit or push command is issued for it.
C18_FailedStatusProbeIsNoChanges ==
    \A i \in Entries :
        (~checkout /\ StatusProbeFailed(i)) =>
            /\ wf[i].out = "NoChanges"
            /\ RunnerCalls(i) = <<>>
            /\ \A n \in DOMAIN Ran(i) : Ran(i)[n].cmd \notin Range(cmds)
            /\ Terminal(i)
            /\ LinesBy(i, { "Bearbeite Repo", "Fehler" }) = {}
            /\ \E n \in DOMAIN logbuf : logbuf[n] = LogLine(i, "Keine Aenderungen")
C18_Witness ==
    \E i \in Entries :
        /\ ~checkout /\ StatusProbeFailed(i)
        /\ wf[i].pc = "exit" /\ wf[i].out = "NoChanges"
        /\ NoticePrinted

\* workflows started (their goroutine exists) that have not signalled the join
StartedUnfinished == Cardinality({ i \in Targets : Dispatched(i) /\ ~Finished(i) })
\* targets main has called wg.Add(1) for, whose workflow has not signalled the join
Added(i) == i \in Entries /\ (i < idx \/ (i = idx /\ mpc \in { "acquire", "go" }))
AddedUnfinished == Cardinality({ i \in Targets : Added(i) /\ ~Finished(i) })
\* goroutines that hold a slot: started and their deferred receive has not run
SlotHolders == Cardinality({ i \in Targets : wf[i].pc \notin { "idle", "exit" } })
\* main is between wg.Add(1) and the go statement
AddedNotStarted == IF mpc \in { "acquire", "go" } THEN 1 ELSE 0
\* main is between the send on sem and the go statement
AcquiredNotStarted == IF mpc = "go" THEN 1 ELSE 0

\* C19 as stated: the join counter is never negative and always equals the
\* number of dispatched-but-unfinished workflows, and the number of held
\* slots is always between that number and maxParallel (whether a workflow
\* counts as dispatched from wg.Add(1) on or from the go statement on).
C19_CounterIsUnfinishedSlotsBetween ==
    \E N \in { StartedUnfinished, AddedUnfinished } :
        /\ wgCount >= 0
        /\ wgCount = N
        /\ N <= sem /\ sem <= parallel

\* C19: every workflow signals the join exactly once and afterwards releases
\* exactly one slot; the join counter is never negative and equals the number
\* of started-but-unfinished workflows plus the one main has counted and not
\* yet started; the held slots are the goroutines that have not released
\* plus the slot main has taken for the goroutine it is about to start, and
\* lie between the number of started-but-unfinished workflows and maxParallel.
C19_CounterAndSlotsAccounting ==
    /\ wgCount >= 0
    /\ wgCount = StartedUnfinished + AddedNotStarted
    /\ wgCount = AddedUnfinished
    /\ sem = SlotHolders + AcquiredNotStarted
    /\ StartedUnfinished <= sem /\ sem <= parallel
    /\ \A i \in Targets : wf[i].pc = "exit" => Finished(i)
C19_Witness ==
    /\ mpc = "acquire" /\ wgCount = 2 /\ sem = 1 /\ parallel = 1
    /\ \E i \in Entries : wf[i].pc = "ret" /\ wf[i].out = "Failed"

\* C20: the limit is not validated before the gate is made. With a limit of
\* 0 and a non-empty target list main never gets past the first send on
\* sem: no workflow is ever started, and neither the closing log line nor
\* the notice is ever written. With an empty target list the run completes
\* whatever the limit is.
C20_ZeroLimitBlocksUnlessListEmpty ==
    /\ [](parallel = 0 =>
            /\ \A i \in Targets : wf[i] = idleWf
            /\ sem = 0
            /\ lines # <<>> =>
                 /\ mpc \notin { "go", "wait", "closing", "notice" }
                 /\ \A n \in DOMAIN logbuf : logbuf[n] # ClosingLine
                 /\ ~NoticePrinted)
    /\ [][(parallel = 0 /\ mpc = "acquire") => (mpc' = "acquire" /\ idx' = 1)]_vars
    /\ [](PastConfig /\ parallel = 0 /\ lines # <<>> => mpc \in { "add", "acquire" })
    /\ ((PastConfig /\ lines = <<>>) ~> (NoticePrinted /\ mpc = "exit"))
C20_Witness ==
    /\ parallel = 0 /\ lines # <<>>
    /\ mpc = "acquire" /\ idx = 1 /\ wgCount = 1 /\ sem = 0
    /\ \A i \in Targets : wf[i] = idleWf

====
